---- MODULE Spec2Model ----
(***************************************************************************)
(* version_sync: the three version accessors (pyproject.toml, package.json *)
(* and Python source files), the coordinator of __main__.py, and the       *)
(* Version type of the packaging library they compare with.                *)
(*                                                                         *)
(* Text is modelled as a sequence of tokens (strings): a version string    *)
(* "1.10.0rc1" is <<"1", ".", "10", ".", "0", "rc", "1">>, a source line   *)
(* is the sequence of its tokens up to and including its "\n".             *)
(***************************************************************************)
EXTENDS Integers, Sequences, FiniteSets, TLC

(***************************************************************************)
(* Bounds of the model.                                                    *)
(***************************************************************************)
\* longest list of file arguments of a run
MaxFiles == 3
\* longest source file, in lines, of the accessor-level part
MaxLines == 3
\* most accessor calls in a row of the accessor-level part
MaxCalls == 2

(***************************************************************************)
(* packaging.version.Version: parsing, str() and ordering.                 *)
(***************************************************************************)
NumTokens == {"0", "1", "2", "9", "10"}

NumVal(t) ==
    CASE t = "0" -> 0 [] t = "1" -> 1 [] t = "2" -> 2 [] t = "9" -> 9 [] t = "10" -> 10

NumStr(n) ==
    CASE n = 0 -> "0" [] n = 1 -> "1" [] n = 2 -> "2" [] n = 9 -> "9" [] n = 10 -> "10"

IsNum(t) == t \in NumTokens

Separators == {".", "-"}

\* index of the last token of the release segment \d+(\.\d+)* that starts at i
RECURSIVE ReleaseEnd(_, _)
ReleaseEnd(s, i) ==
    IF i + 2 <= Len(s) /\ s[i + 1] = "." /\ IsNum(s[i + 2])
    THEN ReleaseEnd(s, i + 2)
    ELSE i

\* the numbers of the release segment s[i..j]
RECURSIVE ReleaseNums(_, _, _)
ReleaseNums(s, i, j) ==
    IF i > j THEN <<>> ELSE <<NumVal(s[i])>> \o ReleaseNums(s, i + 2, j)

DropSep(r) == IF r # <<>> /\ r[1] \in Separators THEN Tail(r) ELSE r

NoVersion == [ok |-> FALSE, release |-> <<>>, pre |-> <<>>]

\* the pre-release segment [-.]?rc[-.]?\d* that must make up all of r
ParsePre(release, r) ==
    IF r = <<>> THEN [ok |-> TRUE, release |-> release, pre |-> <<>>]
    ELSE LET a == DropSep(r) IN
         IF a = <<>> \/ a[1] # "rc" THEN NoVersion
         ELSE LET b == DropSep(Tail(a)) IN
              IF b = <<>> THEN [ok |-> TRUE, release |-> release, pre |-> <<0>>]
              ELSE IF Len(b) = 1 /\ IsNum(b[1])
                   THEN [ok |-> TRUE, release |-> release, pre |-> <<NumVal(b[1])>>]
                   ELSE NoVersion

\* Version(s): ok = FALSE stands for InvalidVersion
Version(s) ==
    LET t == IF s # <<>> /\ s[1] = "v" THEN Tail(s) ELSE s IN
    IF t = <<>> \/ ~IsNum(t[1]) THEN NoVersion
    ELSE LET e == ReleaseEnd(t, 1) IN
         ParsePre(ReleaseNums(t, 1, e), SubSeq(t, e + 1, Len(t)))

RECURSIVE JoinDots(_)
JoinDots(r) ==
    IF Len(r) = 1 THEN <<NumStr(r[1])>>
    ELSE <<NumStr(r[1]), ".">> \o JoinDots(Tail(r))

\* str(version)
VersionStr(v) ==
    JoinDots(v.release) \o (IF v.pre = <<>> THEN <<>> ELSE <<"rc", NumStr(v.pre[1])>>)

RECURSIVE StripZeros(_)
StripZeros(r) ==
    IF r # <<>> /\ r[Len(r)] = 0 THEN StripZeros(SubSeq(r, 1, Len(r) - 1)) ELSE r

\* Python's order of tuples of numbers
RECURSIVE TupleLess(_, _)
TupleLess(a, b) ==
    IF b = <<>> THEN FALSE
    ELSE IF a = <<>> THEN TRUE
    ELSE IF a[1] # b[1] THEN a[1] < b[1]
    ELSE TupleLess(Tail(a), Tail(b))

\* the order of decimal numerals read as strings: "10" < "9"
NumeralLess(x, y) ==
    LET d(n) == IF n >= 10 THEN <<n \div 10, n % 10>> ELSE <<n>> IN
    TupleLess(d(x), d(y))

RECURSIVE StringTupleLess(_, _)
StringTupleLess(a, b) ==
    IF b = <<>> THEN FALSE
    ELSE IF a = <<>> THEN TRUE
    ELSE IF a[1] # b[1] THEN NumeralLess(a[1], b[1])
    ELSE StringTupleLess(Tail(a), Tail(b))

\* a release without pre-release part sorts after each of its pre-releases
PreLess(p, q) == p # <<>> /\ (q = <<>> \/ p[1] < q[1])

\* release segments compared as text
ReleaseLessText(a, b) == StringTupleLess(a, b)

\* the order of the release segments of two comparison keys
ReleaseLess(a, b) == TupleLess(a, b)

\* Version.__lt__ and Version.__eq__, on the comparison key
VersionLess(a, b) ==
    LET ra == StripZeros(a.release)
        rb == StripZeros(b.release)
    IN  ReleaseLess(ra, rb) \/ (ra = rb /\ PreLess(a.pre, b.pre))

VersionEq(a, b) ==
    StripZeros(a.release) = StripZeros(b.release) /\ a.pre = b.pre

(***************************************************************************)
(* What an accessor call comes to.  st: "ok" a version string v is         *)
(* returned, "none" None is returned, "nonstr" an object that is no string *)
(* is returned, "exit" sys.exit(1) was called, "raise" an exception left   *)
(* the function uncaught.                                                  *)
(***************************************************************************)
Got(st, v) == [st |-> st, v |-> v]

(***************************************************************************)
(* pyproject_toml.py.  A file is missing, unparsable ("bad") or holds a    *)
(* document with the tables tool.poetry and project; fmt tells whether the *)
(* text is as toml.dump writes it ("canon") or has comments and layout of  *)
(* its own ("raw").                                                        *)
(***************************************************************************)
NoKey == [tbl |-> FALSE, key |-> FALSE, v |-> <<>>]

MissingToml == [st |-> "missing", poetry |-> NoKey, project |-> NoKey, fmt |-> "canon"]

get_pyproject_version(f) ==
    IF f.st = "missing" THEN Got("exit", <<>>)
    ELSE IF f.st = "bad" THEN Got("raise", <<>>)
    ELSE IF f.poetry.tbl /\ f.poetry.key THEN Got("ok", f.poetry.v)
    ELSE IF f.project.tbl /\ f.project.key THEN Got("ok", f.project.v)
    ELSE Got("exit", <<>>)

SetKey(t, s) == [t EXCEPT !.v = s]

\* a writer that stops at the first table it updates
update_first_table(f, s) ==
    IF f.poetry.tbl /\ f.poetry.key
    THEN [f EXCEPT !.poetry = SetKey(f.poetry, s)]
    ELSE IF f.project.tbl /\ f.project.key
         THEN [f EXCEPT !.project = SetKey(f.project, s)]
         ELSE f

\* the two independent updates of lines 45-54
update_tables(f, s) ==
    [f EXCEPT !.poetry = IF f.poetry.tbl /\ f.poetry.key
                         THEN SetKey(f.poetry, s) ELSE f.poetry,
              !.project = IF f.project.tbl /\ f.project.key
                          THEN SetKey(f.project, s) ELSE f.project]

\* the result of a write: the file afterwards, whether a warning was printed,
\* and "ok" (returned) or "exit" (sys.exit(1))
Wrote(f, warned, st) == [file |-> f, warned |-> warned, st |-> st]

sync_pyproject_version(f, new_version) ==
    IF f.st # "ok" THEN Wrote(f, FALSE, "exit")
    ELSE LET updated == (f.poetry.tbl /\ f.poetry.key) \/ (f.project.tbl /\ f.project.key)
             data == update_tables(f, VersionStr(new_version))
         IN  Wrote([data EXCEPT !.fmt = "canon"], ~updated, "ok")

(***************************************************************************)
(* package_json.py.                                                        *)
(***************************************************************************)
MissingJson == [st |-> "missing", key |-> FALSE, v |-> <<>>, fmt |-> "canon"]

\* a reader with a default for the missing key: data.get("version", "0")
get_packagejson_version_default(f) ==
    IF f.st = "missing" THEN Got("exit", <<>>)
    ELSE IF f.st = "bad" THEN Got("raise", <<>>)
    ELSE IF f.key THEN Got("ok", f.v)
    ELSE Got("ok", <<"0">>)

get_packagejson_version(f) ==
    IF f.st = "missing" THEN Got("exit", <<>>)
    ELSE IF f.st = "bad" THEN Got("raise", <<>>)
    ELSE IF f.key THEN Got("ok", f.v)
    ELSE Got("exit", <<>>)

sync_package_json_version(f, version) ==
    IF f.st # "ok" THEN Wrote(f, FALSE, "exit")
    ELSE Wrote([f EXCEPT !.key = TRUE, !.v = VersionStr(version), !.fmt = "canon"],
               FALSE, "ok")

(***************************************************************************)
(* pyfile.py, the write: a regular expression over the raw lines.          *)
(***************************************************************************)
\* --py-vars, its default
PyVars == {"version", "VERSION", "__version__", "__VERSION__"}

Quotes == {"'", "\""}

MissingPy == [st |-> "missing", lines |-> <<>>]

Min(S) == CHOOSE m \in S : \A n \in S : m <= n

\* the line without the "\n" that ends it ('.' matches no newline, '$' matches
\* before a final one)
Body(line) ==
    IF line # <<>> /\ line[Len(line)] = "\n" THEN SubSeq(line, 1, Len(line) - 1) ELSE line

\* \s*: the first index from i on that holds no whitespace (Len + 1 if none)
RECURSIVE SkipWs(_, _)
SkipWs(t, i) == IF i <= Len(t) /\ t[i] = " " THEN SkipWs(t, i + 1) ELSE i

NoMatch == [m |-> FALSE, prefix |-> <<>>, quote |-> "", suffix |-> <<>>]

\* pattern.match(line), lines 62-66 and 70:
\* ^(\s*(vars)\s*=\s*)(['"])(.*?)(['"])(.*)$ ; groups 1, 3 and 6
pattern_match(line, pyvars) ==
    LET t == Body(line)
        a == SkipWs(t, 1)
        b == SkipWs(t, a + 1)
        c == SkipWs(t, b + 1)
    IN  IF a <= Len(t) /\ t[a] \in pyvars /\ b <= Len(t) /\ t[b] = "="
           /\ c <= Len(t) /\ t[c] \in Quotes
           /\ \E j \in (c + 1)..Len(t) : t[j] \in Quotes
        THEN LET d == Min({j \in (c + 1)..Len(t) : t[j] \in Quotes}) IN
             [m |-> TRUE, prefix |-> SubSeq(t, 1, c - 1), quote |-> t[c],
              suffix |-> SubSeq(t, d + 1, Len(t))]
        ELSE NoMatch

\* lines 71-79: the line written for one line read
new_line(line, pyvars, s) ==
    LET m == pattern_match(line, pyvars) IN
    IF m.m THEN m.prefix \o <<m.quote>> \o s \o <<m.quote>> \o m.suffix \o <<"\n">>
    ELSE line

\* a writer for which a file without a matching line is an error
sync_pyfile_version_strict(f, pyvars, new_version) ==
    IF f.st # "ok" THEN Wrote(f, FALSE, "exit")
    ELSE LET found == \E i \in 1..Len(f.lines) : pattern_match(f.lines[i], pyvars).m
             new_lines == [i \in 1..Len(f.lines) |->
                              new_line(f.lines[i], pyvars, VersionStr(new_version))]
         IN  Wrote([f EXCEPT !.lines = new_lines], ~found, IF found THEN "ok" ELSE "exit")

sync_pyfile_version(f, pyvars, new_version) ==
    IF f.st # "ok" THEN Wrote(f, FALSE, "exit")
    ELSE LET found == \E i \in 1..Len(f.lines) : pattern_match(f.lines[i], pyvars).m
             new_lines == [i \in 1..Len(f.lines) |->
                              new_line(f.lines[i], pyvars, VersionStr(new_version))]
         IN  Wrote([f EXCEPT !.lines = new_lines], ~found, "ok")

(***************************************************************************)
(* pyfile.py, the read: ast.parse and ast.walk.  The parser below knows    *)
(* the statements a line can hold: an assignment NAME = ... = expr, a      *)
(* block header ("def f():"), an expression, a comment.  An expression is  *)
(* one or more adjacent string literals, a number, a name, a call NAME()   *)
(* or one of these in parentheses.                                         *)
(***************************************************************************)
Lexeme(k, s) == [k |-> k, s |-> s]

\* the first j >= i where the quote q stands, 0 if none
QuoteAt(t, i, q) ==
    LET S == {j \in i..Len(t) : t[j] = q} IN IF S = {} THEN 0 ELSE Min(S)

\* the tokenizer: whitespace and comments dropped, a string literal from its
\* quote to the next quote of the same kind
RECURSIVE Lex(_, _)
Lex(t, i) ==
    IF i > Len(t) THEN <<>>
    ELSE IF t[i] = " " THEN Lex(t, i + 1)
    ELSE IF t[i] = "#" THEN <<>>
    ELSE IF t[i] \in Quotes THEN
        LET j == QuoteAt(t, i + 1, t[i]) IN
        IF j = 0 THEN <<Lexeme("bad", <<>>)>>
        ELSE <<Lexeme("str", SubSeq(t, i + 1, j - 1))>> \o Lex(t, j + 1)
    ELSE IF t[i] = "=" THEN <<Lexeme("eq", <<>>)>> \o Lex(t, i + 1)
    ELSE IF t[i] = "(" THEN <<Lexeme("lp", <<>>)>> \o Lex(t, i + 1)
    ELSE IF t[i] = ")" THEN <<Lexeme("rp", <<>>)>> \o Lex(t, i + 1)
    ELSE IF t[i] = "def f():" THEN <<Lexeme("hdr", <<>>)>> \o Lex(t, i + 1)
    ELSE IF IsNum(t[i]) THEN <<Lexeme("num", <<t[i]>>)>> \o Lex(t, i + 1)
    ELSE IF t[i] \in Separators \/ t[i] = "\n" THEN <<Lexeme("bad", <<>>)>>
    ELSE <<Lexeme("name", <<t[i]>>)>> \o Lex(t, i + 1)

RECURSIVE Concat(_)
Concat(L) == IF L = <<>> THEN <<>> ELSE L[1].s \o Concat(Tail(L))

\* the value node of an expression: k = "str" a string Constant, "none" the
\* Constant None, "num" another Constant, "noattr" a node without .value
\* (Name, Call), "error" no expression
RECURSIVE ParseExpr(_)
ParseExpr(L) ==
    IF L = <<>> THEN Lexeme("error", <<>>)
    ELSE IF \A i \in 1..Len(L) : L[i].k = "str" THEN Lexeme("str", Concat(L))
    ELSE IF Len(L) = 1 /\ L[1].k = "num" THEN Lexeme("num", <<>>)
    ELSE IF Len(L) = 1 /\ L[1].k = "name"
         THEN IF L[1].s = <<"None">> THEN Lexeme("none", <<>>) ELSE Lexeme("noattr", <<>>)
    ELSE IF Len(L) = 3 /\ L[1].k = "name" /\ L[2].k = "lp" /\ L[3].k = "rp"
         THEN Lexeme("noattr", <<>>)
    ELSE IF Len(L) >= 3 /\ L[1].k = "lp" /\ L[Len(L)].k = "rp"
         THEN ParseExpr(SubSeq(L, 2, Len(L) - 1))
    ELSE Lexeme("error", <<>>)

\* the number of leading NAME = pairs of an assignment
RECURSIVE TargetCount(_)
TargetCount(L) ==
    IF Len(L) >= 2 /\ L[1].k = "name" /\ L[2].k = "eq"
    THEN 1 + TargetCount(SubSeq(L, 3, Len(L)))
    ELSE 0

Stmt(k, ind, targets, val) == [k |-> k, ind |-> ind, targets |-> targets, val |-> val]

\* one line as a statement: k = "blank", "hdr", "assign", "expr" or "error"
ParseLine(line) ==
    LET t == Body(line)
        ind == SkipWs(t, 1) - 1
        L == Lex(t, 1)
        n == TargetCount(L)
        none == Lexeme("error", <<>>)
    IN  IF L = <<>> THEN Stmt("blank", ind, {}, none)
        ELSE IF \E i \in 1..Len(L) : L[i].k = "bad" THEN Stmt("error", ind, {}, none)
        ELSE IF L = <<Lexeme("hdr", <<>>)>> THEN Stmt("hdr", ind, {}, none)
        ELSE IF n > 0
             THEN LET val == ParseExpr(SubSeq(L, 2 * n + 1, Len(L))) IN
                  IF val.k = "error" THEN Stmt("error", ind, {}, none)
                  ELSE Stmt("assign", ind, {L[2 * i - 1].s[1] : i \in 1..n}, val)
        ELSE IF ParseExpr(L).k = "error" THEN Stmt("error", ind, {}, none)
        ELSE Stmt("expr", ind, {}, none)

\* the statements of a file, blank lines left out
RECURSIVE Statements(_)
Statements(lines) ==
    IF lines = <<>> THEN <<>>
    ELSE LET st == ParseLine(lines[1]) IN
         (IF st.k = "blank" THEN <<>> ELSE <<st>>) \o Statements(Tail(lines))

\* ast.parse raises SyntaxError: a line that is no statement, a block header
\* without a block, an indent without a header
SyntaxError(S) ==
    \/ \E i \in 1..Len(S) : S[i].k = "error"
    \/ S # <<>> /\ S[1].ind # 0
    \/ S # <<>> /\ S[Len(S)].k = "hdr"
    \/ \E i \in 1..(Len(S) - 1) :
          IF S[i].k = "hdr" THEN S[i + 1].ind # S[i].ind + 1
          ELSE S[i + 1].ind > S[i].ind

IsVersionAssign(st, pyvars) == st.k = "assign" /\ st.targets \cap pyvars # {}

\* a search of the module body alone
first_top_level(S, pyvars) ==
    LET C == {i \in 1..Len(S) : S[i].ind = 0 /\ IsVersionAssign(S[i], pyvars)}
    IN  IF C = {} THEN 0 ELSE Min(C)

\* ast.walk, lines 38-43: breadth first, so the statements of one depth in
\* their order in the text, the shallower depth first; 0 if none is found
RECURSIVE walk(_, _, _)
walk(S, pyvars, depth) ==
    LET C == {i \in 1..Len(S) : S[i].ind = depth /\ IsVersionAssign(S[i], pyvars)}
    IN  IF C # {} THEN Min(C)
        ELSE IF \A i \in 1..Len(S) : S[i].ind <= depth THEN 0
        ELSE walk(S, pyvars, depth + 1)

first_assign(S, pyvars) == walk(S, pyvars, 0)

\* lines 24-46; "return node.value.value" of the first assignment found
get_pyfile_version(f, pyvars) ==
    IF f.st = "missing" THEN Got("exit", <<>>)
    ELSE LET S == Statements(f.lines) IN
         IF SyntaxError(S) THEN Got("exit", <<>>)
         ELSE LET i == first_assign(S, pyvars) IN
              IF i = 0 THEN Got("exit", <<>>)
              ELSE CASE S[i].val.k = "str" -> Got("ok", S[i].val.s)
                     [] S[i].val.k = "none" -> Got("none", <<>>)
                     [] S[i].val.k = "num" -> Got("nonstr", <<>>)
                     [] OTHER -> Got("raise", <<>>)

(***************************************************************************)
(* The files the model starts from.                                        *)
(***************************************************************************)
S190 == <<"1", ".", "9", ".", "0">>
S1100 == <<"1", ".", "10", ".", "0">>
S110 == <<"1", ".", "10">>
Sv1100 == <<"v", "1", ".", "10", ".", "0">>
S1100rc1 == <<"1", ".", "10", ".", "0", "-", "rc", ".", "1">>
Sx == <<"x">>

Key(s) == [tbl |-> TRUE, key |-> TRUE, v |-> s]
TableOnly == [tbl |-> TRUE, key |-> FALSE, v |-> <<>>]
TomlDoc(poetry, project, fmt) ==
    [st |-> "ok", poetry |-> poetry, project |-> project, fmt |-> fmt]
BadToml == [st |-> "bad", poetry |-> NoKey, project |-> NoKey, fmt |-> "raw"]

JsonDoc(key, s, fmt) == [st |-> "ok", key |-> key, v |-> s, fmt |-> fmt]
BadJson == [st |-> "bad", key |-> FALSE, v |-> <<>>, fmt |-> "raw"]

PyFile(lines) == [st |-> "ok", lines |-> lines]

\* source lines
Assign(name, q, s) == <<name, " ", "=", " ", q>> \o s \o <<q, "\n">>
LineDunder(s) == Assign("__version__", "\"", s)
LineNote(s) == <<"VERSION", " ", "=", " ", "'">> \o s \o <<"'", " ", "#", "note", "\n">>
LineNested(s) == <<" ">> \o Assign("version", "\"", s)
LineDef == <<"def f():", "\n">>
LineComment == <<"#", "note", "\n">>
LineParen(s) == <<"version", " ", "=", " ", "(", "\"">> \o s \o <<"\"", ")", "\n">>
LineCall == <<"version", " ", "=", " ", "get", "(", ")", "\n">>
LineNone == <<"version", " ", "=", " ", "None", "\n">>
LineApostrophe == <<"VERSION", " ", "=", " ", "\"", "x", "'", "x", "\"", "\n">>
LineNoNewline(s) == <<"version", " ", "=", " ", "\"">> \o s \o <<"\"">>

\* the lines of the source files of the accessor-level part
UnitLines ==
    { LineDunder(S190), LineDunder(S1100), LineNote(S190), LineNested(S1100),
      LineDef, LineComment, LineParen(S190), LineCall, LineNone,
      LineApostrophe, LineNoNewline(S190) }

\* text as readlines() splits it: every line but the last ends with "\n"
IsText(lines) == \A k \in 1..(Len(lines) - 1) : lines[k][Len(lines[k])] = "\n"

RECURSIVE SeqsUpTo(_, _)
SeqsUpTo(S, n) ==
    IF n = 0 THEN {<<>>}
    ELSE LET R == SeqsUpTo(S, n - 1) IN
         R \cup {Append(r, e) : r \in {q \in R : Len(q) = n - 1}, e \in S}

UnitPy == {MissingPy} \cup {PyFile(l) : l \in {q \in SeqsUpTo(UnitLines, MaxLines) : IsText(q)}}

UnitTables == {NoKey, TableOnly, Key(S190), Key(Sv1100)}

UnitToml ==
    {MissingToml, BadToml}
    \cup {TomlDoc(a, b, f) : a \in UnitTables, b \in UnitTables, f \in {"raw", "canon"}}

UnitJson ==
    {MissingJson, BadJson}
    \cup {JsonDoc(FALSE, <<>>, f) : f \in {"raw", "canon"}}
    \cup {JsonDoc(TRUE, s, f) : s \in {S190, Sv1100, Sx}, f \in {"raw", "canon"}}

\* the versions the accessor-level writes are called with
UnitVersions == {Version(S1100), Version(S1100rc1)}

\* the files of a run
RunToml ==
    { MissingToml, BadToml,
      TomlDoc(NoKey, NoKey, "raw"),
      TomlDoc(Key(S190), NoKey, "raw"),
      TomlDoc(Key(S1100), NoKey, "canon"),
      TomlDoc(NoKey, Key(S190), "raw"),
      TomlDoc(NoKey, Key(S110), "raw"),
      TomlDoc(TableOnly, Key(S1100rc1), "raw"),
      TomlDoc(Key(S1100), Key(S190), "raw") }

RunJson ==
    { MissingJson, BadJson, JsonDoc(FALSE, <<>>, "raw") }
    \cup {JsonDoc(TRUE, s, "raw") : s \in {S190, S1100, Sv1100, S1100rc1, Sx}}

RunPy ==
    { MissingPy,
      PyFile(<<LineDunder(S190)>>),
      PyFile(<<LineDunder(S1100)>>),
      PyFile(<<LineComment, LineNote(S190)>>),
      PyFile(<<LineParen(S190)>>),
      PyFile(<<LineDef, LineNested(S190)>>),
      PyFile(<<LineDef, LineNested(S1100), LineDunder(S190)>>),
      PyFile(<<LineComment>>),
      PyFile(<<LineCall, LineDunder(S190)>>),
      PyFile(<<LineNone>>),
      PyFile(<<LineDunder(S190), LineApostrophe>>),
      PyFile(<<LineNoNewline(S190)>>) }

\* the names a file argument can have; the last is of no supported kind
FileNames == {"pyproject.toml", "package.json", "mod.py", "notes.txt"}

(***************************************************************************)
(* State.  The program is driven in two ways: main() is run from the       *)
(* command line (pc = "parse", "sync", "done"), once or twice in a row on  *)
(* the same arguments, or the accessor functions are called one by one, as *)
(* the unit tests call them (pc = "unit").                                 *)
(***************************************************************************)
VARIABLES
    toml,       \* pyproject.toml on disk
    json,       \* package.json on disk
    py,         \* mod.py on disk
    files,      \* args.files
    sync,       \* args.sync
    pc,         \* where main() stands
    i,          \* the position of the running loop
    versions,   \* the dict parsed_versions: entries [file, ver] in insertion order
    highest,    \* highest_version
    exit,       \* the exit code of the process, -1 while it runs
    writes,     \* the files a write function was called for in this run, in order
    warned,     \* the files a "Warning: ..." was printed for in this run
    run,        \* 1 in the first run of main(), 2 in the second
    disk0,      \* the three files as they were when this run began
    unit,       \* the file kind the accessor-level calls are about, or "none"
    calls       \* the accessor-level calls made so far

vars == <<toml, json, py, files, sync, pc, i, versions, highest, exit, writes,
          warned, run, disk0, unit, calls>>

Disk == [toml |-> toml, json |-> json, py |-> py]

KindOf(file) ==
    CASE file = "pyproject.toml" -> "toml"
      [] file = "package.json" -> "json"
      [] file = "mod.py" -> "py"
      [] OTHER -> "other"

Range(q) == {q[k] : k \in 1..Len(q)}

InitRun ==
    /\ pc = "parse"
    /\ files \in SeqsUpTo(FileNames, MaxFiles)
    /\ sync \in BOOLEAN
    /\ toml \in IF "pyproject.toml" \in Range(files) THEN RunToml ELSE {MissingToml}
    /\ json \in IF "package.json" \in Range(files) THEN RunJson ELSE {MissingJson}
    /\ py \in IF "mod.py" \in Range(files) THEN RunPy ELSE {MissingPy}
    /\ unit = "none"

InitUnit ==
    /\ pc = "unit"
    /\ files = <<>>
    /\ sync = FALSE
    /\ unit \in {"toml", "json", "py"}
    /\ toml \in IF unit = "toml" THEN UnitToml ELSE {MissingToml}
    /\ json \in IF unit = "json" THEN UnitJson ELSE {MissingJson}
    /\ py \in IF unit = "py" THEN UnitPy ELSE {MissingPy}

Init ==
    /\ InitRun \/ InitUnit
    /\ i = 1
    /\ versions = <<>>
    /\ highest = NoVersion
    /\ exit = -1
    /\ writes = <<>>
    /\ warned = {}
    /\ run = 1
    /\ disk0 = Disk
    /\ calls = <<>>

(***************************************************************************)
(* __main__.py                                                             *)
(***************************************************************************)
\* the accessor parse_versions picks by the file's name, lines 19-27, on the
\* files d
read_file_on(d, file) ==
    CASE KindOf(file) = "toml" -> get_pyproject_version(d.toml)
      [] KindOf(file) = "json" -> get_packagejson_version(d.json)
      [] KindOf(file) = "py" -> get_pyfile_version(d.py, PyVars)
      [] OTHER -> Got("exit", <<>>)

read_file(file) == read_file_on(Disk, file)

\* versions[file] = ver: a key keeps its place in the dict
DictSet(d, file, ver) ==
    IF \E k \in 1..Len(d) : d[k].file = file
    THEN [k \in 1..Len(d) |-> IF d[k].file = file THEN [file |-> file, ver |-> ver] ELSE d[k]]
    ELSE Append(d, [file |-> file, ver |-> ver])

\* max(parsed_versions.values()): the first of the greatest values
RECURSIVE MaxFrom(_, _, _)
MaxFrom(d, k, cur) ==
    IF k > Len(d) THEN cur
    ELSE MaxFrom(d, k + 1, IF VersionLess(cur, d[k].ver) THEN d[k].ver ELSE cur)

max_version(d) == MaxFrom(d, 2, d[1].ver)

\* the key Version hashes and compares by
VersionKey(v) == <<StripZeros(v.release), v.pre>>

\* the values told apart by their text
distinct_strings(d) == Cardinality({VersionStr(d[k].ver) : k \in 1..Len(d)})

\* len(set(parsed_versions.values())), line 97
distinct_versions(d) == Cardinality({VersionKey(d[k].ver) : k \in 1..Len(d)})

Exit(code) ==
    /\ pc' = "done"
    /\ exit' = code

\* one turn of the loop of parse_versions, lines 17-33
parse_versions ==
    /\ pc = "parse"
    /\ i <= Len(files)
    /\ LET got == read_file(files[i])
           ver == Version(got.v)
       IN  IF got.st = "ok" /\ ver.ok
           THEN /\ versions' = DictSet(versions, files[i], ver)
                /\ i' = i + 1
                /\ UNCHANGED <<pc, exit>>
           ELSE /\ Exit(1)
                /\ UNCHANGED <<versions, i>>
    /\ UNCHANGED <<toml, json, py, files, sync, highest, writes, warned, run, disk0,
                   unit, calls>>

\* main() that goes on to sync_versions whether --sync was given or not
main_collected_syncs ==
    /\ pc = "parse"
    /\ i > Len(files)
    /\ IF Len(versions) = 0
       THEN Exit(1) /\ UNCHANGED <<highest, i>>
       ELSE /\ highest' = max_version(versions)
            /\ pc' = "sync" /\ i' = 1 /\ UNCHANGED exit
    /\ UNCHANGED <<toml, json, py, files, sync, versions, writes, warned, run, disk0,
                   unit, calls>>

\* main() once parse_versions has returned, lines 80-106 but for the calls of
\* the write functions
main_collected ==
    /\ pc = "parse"
    /\ i > Len(files)
    /\ IF Len(versions) = 0
       THEN Exit(1) /\ UNCHANGED <<highest, i>>
       ELSE /\ highest' = max_version(versions)
            /\ IF sync
               THEN pc' = "sync" /\ i' = 1 /\ UNCHANGED exit
               ELSE /\ Exit(IF distinct_versions(versions) # 1 THEN 1 ELSE 0)
                    /\ UNCHANGED i
    /\ UNCHANGED <<toml, json, py, files, sync, versions, writes, warned, run, disk0,
                   unit, calls>>

\* the write function sync_versions picks by the file's name, lines 41-46
write_file(file, version) ==
    CASE KindOf(file) = "json" -> sync_package_json_version(json, version)
      [] KindOf(file) = "toml" -> sync_pyproject_version(toml, version)
      [] KindOf(file) = "py" -> sync_pyfile_version(py, PyVars, version)

\* line 40: the files sync_versions leaves alone
up_to_date(ver, target) == VersionEq(ver, target)

\* one turn of the loop of sync_versions, lines 39-46
sync_versions ==
    /\ pc = "sync"
    /\ i <= Len(versions)
    /\ LET file == versions[i].file IN
       IF up_to_date(versions[i].ver, highest)
       THEN /\ i' = i + 1
            /\ UNCHANGED <<toml, json, py, writes, warned, pc, exit>>
       ELSE LET w == write_file(file, highest) IN
            /\ toml' = IF KindOf(file) = "toml" THEN w.file ELSE toml
            /\ json' = IF KindOf(file) = "json" THEN w.file ELSE json
            /\ py' = IF KindOf(file) = "py" THEN w.file ELSE py
            /\ writes' = Append(writes, file)
            /\ warned' = IF w.warned THEN warned \cup {file} ELSE warned
            /\ IF w.st = "ok"
               THEN i' = i + 1 /\ UNCHANGED <<pc, exit>>
               ELSE Exit(1) /\ UNCHANGED i
    /\ UNCHANGED <<files, sync, versions, highest, run, disk0, unit, calls>>

\* lines 93-94
main_synced ==
    /\ pc = "sync"
    /\ i > Len(versions)
    /\ Exit(0)
    /\ UNCHANGED <<toml, json, py, files, sync, i, versions, highest, writes, warned,
                   run, disk0, unit, calls>>

\* the same command line once more, after a run with --sync that ended well
main_again ==
    /\ pc = "done"
    /\ run = 1
    /\ sync
    /\ exit = 0
    /\ pc' = "parse"
    /\ run' = 2
    /\ i' = 1
    /\ versions' = <<>>
    /\ highest' = NoVersion
    /\ exit' = -1
    /\ writes' = <<>>
    /\ warned' = {}
    /\ disk0' = Disk
    /\ UNCHANGED <<toml, json, py, files, sync, unit, calls>>

(***************************************************************************)
(* The accessor functions called on their own.                             *)
(***************************************************************************)
Call(op, arg, st, v, w, before, after) ==
    [op |-> op, arg |-> arg, st |-> st, v |-> v, warned |-> w,
     before |-> before, after |-> after]

UnitFrame ==
    UNCHANGED <<files, sync, pc, i, versions, highest, exit, writes, warned, run,
                disk0, unit>>

CanCall(kind) == pc = "unit" /\ unit = kind /\ Len(calls) < MaxCalls

call_get_pyproject_version ==
    /\ CanCall("toml")
    /\ LET got == get_pyproject_version(toml) IN
       calls' = Append(calls, Call("get", NoVersion, got.st, got.v, FALSE, toml, toml))
    /\ UNCHANGED <<toml, json, py>>
    /\ UnitFrame

call_sync_pyproject_version ==
    /\ CanCall("toml")
    /\ \E version \in UnitVersions :
          LET w == sync_pyproject_version(toml, version) IN
          /\ toml' = w.file
          /\ calls' = Append(calls, Call("sync", version, w.st, <<>>, w.warned, toml, w.file))
    /\ UNCHANGED <<json, py>>
    /\ UnitFrame

call_get_packagejson_version ==
    /\ CanCall("json")
    /\ LET got == get_packagejson_version(json) IN
       calls' = Append(calls, Call("get", NoVersion, got.st, got.v, FALSE, json, json))
    /\ UNCHANGED <<toml, json, py>>
    /\ UnitFrame

call_sync_package_json_version ==
    /\ CanCall("json")
    /\ \E version \in UnitVersions :
          LET w == sync_package_json_version(json, version) IN
          /\ json' = w.file
          /\ calls' = Append(calls, Call("sync", version, w.st, <<>>, w.warned, json, w.file))
    /\ UNCHANGED <<toml, py>>
    /\ UnitFrame

call_get_pyfile_version ==
    /\ CanCall("py")
    /\ LET got == get_pyfile_version(py, PyVars) IN
       calls' = Append(calls, Call("get", NoVersion, got.st, got.v, FALSE, py, py))
    /\ UNCHANGED <<toml, json, py>>
    /\ UnitFrame

call_sync_pyfile_version ==
    /\ CanCall("py")
    /\ \E version \in UnitVersions :
          LET w == sync_pyfile_version(py, PyVars, version) IN
          /\ py' = w.file
          /\ calls' = Append(calls, Call("sync", version, w.st, <<>>, w.warned, py, w.file))
    /\ UNCHANGED <<toml, json>>
    /\ UnitFrame

Next ==
    \/ parse_versions
    \/ main_collected
    \/ sync_versions
    \/ main_synced
    \/ main_again
    \/ call_get_pyproject_version
    \/ call_sync_pyproject_version
    \/ call_get_packagejson_version
    \/ call_sync_package_json_version
    \/ call_get_pyfile_version
    \/ call_sync_pyfile_version

Spec == Init /\ [][Next]_vars

(***************************************************************************)
(* Properties.                                                             *)
(***************************************************************************)
\* the Version a file of the files d is read as, NoVersion if the read fails
VersionOn(d, file) ==
    LET got == read_file_on(d, file) IN
    IF got.st = "ok" THEN Version(got.v) ELSE NoVersion

\* every file argument is read well from the files d
AllRead(d) == \A f \in Range(files) : VersionOn(d, f).ok

\* major, minor, patch: the n-th number of a release, 0 if it is left out
Part(v, n) == IF n <= Len(v.release) THEN v.release[n] ELSE 0

\* a >= b by the numbers major, minor and patch, one after the other, a
\* pre-release below its release
NumericGE(a, b) ==
    \/ Part(a, 1) > Part(b, 1)
    \/ /\ Part(a, 1) = Part(b, 1)
       /\ \/ Part(a, 2) > Part(b, 2)
          \/ /\ Part(a, 2) = Part(b, 2)
             /\ \/ Part(a, 3) > Part(b, 3)
                \/ /\ Part(a, 3) = Part(b, 3)
                   /\ \/ a.pre = <<>>
                      \/ b.pre # <<>> /\ a.pre[1] >= b.pre[1]

SameVersion(a, b) == NumericGE(a, b) /\ NumericGE(b, a)

\* C1: a run with --sync over a non-empty list of supported files that are all
\* read well ends with exit code 0, and afterwards every file argument, read
\* with its own accessor, yields the target version, the greatest of the
\* versions collected when the run began.
C1_SyncSetsEveryFile ==
    (pc = "done" /\ sync /\ files # <<>> /\ AllRead(disk0))
        => /\ exit = 0
           /\ \A f \in Range(files) :
                 /\ VersionOn(Disk, f).ok
                 /\ SameVersion(VersionOn(Disk, f), highest)
                 /\ NumericGE(highest, VersionOn(disk0, f))

\* C2: without --sync, once every file is read, the exit code is 0 if and only
\* if all collected versions are equal; two files with different versions make
\* it 1.
C2_CheckExitCode ==
    (pc = "done" /\ ~sync /\ files # <<>> /\ AllRead(disk0))
        => (exit = 0 <=> \A f, g \in Range(files) :
                            SameVersion(VersionOn(disk0, f), VersionOn(disk0, g)))

\* a check of two files or more, all read well, that ended with 1
C2_Witness ==
    /\ pc = "done" /\ ~sync /\ AllRead(disk0)
    /\ exit = 1
    /\ Len(versions) >= 2

\* C3: the target of a sync is one of the collected versions and is greater
\* than or equal to each of them by the numbers major, minor, patch (1.10.0
\* over 1.9.0), a pre-release below its release.
C3_TargetIsNumericMax ==
    highest.ok
        => /\ \E k \in 1..Len(versions) : versions[k].ver = highest
           /\ \A k \in 1..Len(versions) : NumericGE(highest, versions[k].ver)

\* 1.9.0, 1.10.0 and a pre-release of 1.10.0 collected, 1.10.0 the target
C3_Witness ==
    /\ highest = Version(S1100)
    /\ sync
    /\ \E k \in 1..Len(versions) : versions[k].ver = Version(S190)
    /\ \E k \in 1..Len(versions) : versions[k].ver = Version(S1100rc1)

\* the read of one kind of file
get_version(kind, f) ==
    CASE kind = "toml" -> get_pyproject_version(f)
      [] kind = "json" -> get_packagejson_version(f)
      [] kind = "py" -> get_pyfile_version(f, PyVars)

\* C4: round trip, for each of the three kinds of file and any Version v: the
\* write of v on a file, then the read of that file, yields v.  The claim is
\* taken for the files it asks least of: those the read yields a version from
\* before the write.
C4_RoundTrip ==
    \A k \in 1..(Len(calls) - 1) :
        ( /\ calls[k].op = "sync" /\ calls[k].st = "ok"
          /\ calls[k + 1].op = "get"
          /\ get_version(unit, calls[k].before).st = "ok"
          /\ Version(get_version(unit, calls[k].before).v).ok )
            => /\ calls[k + 1].st = "ok"
               /\ Version(calls[k + 1].v) = calls[k].arg

\* C5: after a run with --sync that ended well, a second run with --sync over
\* the same files calls no write function; and no run calls the write function
\* for a file whose collected version equals the target.
C5_SecondSyncWritesNothing ==
    /\ run = 2 => writes = <<>>
    /\ \A f \in Range(writes) : ~SameVersion(VersionOn(disk0, f), highest)

\* the line after is the line before but for the text between two quotes of it,
\* which is s
OnlyQuotedTextChanged(before, after, s) ==
    \E c \in 1..Len(before) : \E d \in (c + 1)..Len(before) :
        /\ before[c] \in Quotes
        /\ before[d] \in Quotes
        /\ after = SubSeq(before, 1, c) \o s \o SubSeq(before, d, Len(before))

\* C6: the source-text write changes, on a line that matches the pattern, only
\* the text between the quotes (the assignment text before it, the quote
\* characters and what follows them stay), and writes every other line back as
\* it was read; the lines keep their number and order.
C6_WriteKeepsTheRest ==
    \A k \in 1..Len(calls) :
        (unit = "py" /\ calls[k].op = "sync" /\ calls[k].st = "ok")
            => LET b == calls[k].before.lines
                   a == calls[k].after.lines
               IN  /\ Len(a) = Len(b)
                   /\ \A n \in 1..Len(b) :
                         IF pattern_match(b[n], PyVars).m
                         THEN OnlyQuotedTextChanged(b[n], a[n], VersionStr(calls[k].arg))
                         ELSE a[n] = b[n]

\* a file argument that cannot be collected: of no supported kind, missing,
\* or without a version field or variable
BadFile(d, file) ==
    CASE KindOf(file) = "toml" ->
            \/ d.toml.st = "missing"
            \/ d.toml.st = "ok" /\ ~d.toml.poetry.key /\ ~d.toml.project.key
      [] KindOf(file) = "json" ->
            \/ d.json.st = "missing"
            \/ d.json.st = "ok" /\ ~d.json.key
      [] KindOf(file) = "py" ->
            \/ d.py.st = "missing"
            \/ \A n \in 1..Len(d.py.lines) :
                  ~IsVersionAssign(ParseLine(d.py.lines[n]), PyVars)
      [] OTHER -> TRUE

VersionAssigns(S) == {n \in 1..Len(S) : IsVersionAssign(S[n], PyVars)}

NothingToUpdate(kind, f) ==
    CASE kind = "toml" ->
            f.st = "ok" /\ ~(f.poetry.tbl /\ f.poetry.key) /\ ~(f.project.tbl /\ f.project.key)
      [] kind = "py" ->
            f.st = "ok" /\ \A n \in 1..Len(f.lines) : ~pattern_match(f.lines[n], PyVars).m
      [] OTHER -> FALSE

FileOf(d, file) ==
    CASE KindOf(file) = "toml" -> d.toml
      [] KindOf(file) = "json" -> d.json
      [] KindOf(file) = "py" -> d.py

\* the same document, whatever the layout of its text
SameDocument(kind, a, b) ==
    IF kind = "py" THEN a = b ELSE [a EXCEPT !.fmt = "canon"] = [b EXCEPT !.fmt = "canon"]

\* every file that differs from the target has had its write
SyncWentOn ==
    \A k \in 1..Len(versions) :
        ~SameVersion(versions[k].ver, highest) => versions[k].file \in Range(writes)

C10_TomlWriteSetsExistingKeys ==
    \A k \in 1..Len(calls) :
        (unit = "toml" /\ calls[k].op = "sync" /\ calls[k].st = "ok")
            => LET b == calls[k].before
                   a == calls[k].after
                   s == VersionStr(calls[k].arg)
               IN  /\ a.poetry = IF b.poetry.tbl /\ b.poetry.key THEN Key(s) ELSE b.poetry
                   /\ a.project = IF b.project.tbl /\ b.project.key THEN Key(s) ELSE b.project

\* a write on a document with both keys, both set
C10_Witness ==
    \E k \in 1..Len(calls) :
        /\ unit = "toml" /\ calls[k].op = "sync" /\ calls[k].st = "ok"
        /\ calls[k].before.poetry.key /\ calls[k].before.project.key
        /\ calls[k].before.poetry.v # VersionStr(calls[k].arg)
        /\ calls[k].before.project.v # VersionStr(calls[k].arg)
        /\ calls[k].after.poetry.v = VersionStr(calls[k].arg)
        /\ calls[k].after.project.v = VersionStr(calls[k].arg)

\* C11: a run without --sync is read-only.  It calls no write function of any
\* accessor, and at every point of the run, whatever its outcome (versions
\* match, versions differ, a file that cannot be collected), every file is as
\* it was when the run began.
C11_CheckIsReadOnly ==
    (unit = "none" /\ ~sync) => (writes = <<>> /\ warned = {} /\ Disk = disk0)

\* a run without --sync that ended with exit code 1 over files of different
\* versions, one of them at least below the highest: the files --sync would
\* have written
C11_Witness ==
    /\ unit = "none" /\ ~sync
    /\ pc = "done" /\ exit = 1
    /\ Len(versions) >= 2
    /\ highest.ok
    /\ \E k \in 1..Len(versions) : ~up_to_date(versions[k].ver, highest)

====
